---------------------------- MODULE Spec2Model ----------------------------
(***************************************************************************)
(* The toy language toolchain of src/toy-lang/src/main.rs: Lexer, Parser   *)
(* and Interpreter.  A String / Vec<char> is a sequence of one-character   *)
(* strings; a usize cursor keeps the 0-based value it has in the source,   *)
(* so element k of a Rust vector v is v[k + 1] here.                       *)
(***************************************************************************)
EXTENDS Integers, Sequences, FiniteSets, TLC

VARIABLES
    src,      \* Lexer.src: the characters of the source text
    lex_i,    \* Lexer.i
    lex_ts,   \* the local ts of Lexer::tokenize
    lex_ret,  \* what Lexer::tokenize returned
    par_ts,   \* Parser.ts
    par_i,    \* Parser.i
    body,     \* the local body of Parser::parse
    par_ret,  \* what Parser::parse returned
    prog,     \* prog.body, the statements Interpreter::run iterates over
    run_k,    \* how many statements the for loop of run has completed
    env,      \* Interpreter.env
    out,      \* the texts handed to println! by exec_print, in order
    run_ret,  \* what Interpreter::run returned
    run_calls,\* how many times run was called on this Interpreter
    main_ret, \* what main of toy-lang returned
    diag,     \* the dumps main of toy-lang hands to println!, in order
    sessions, \* the DashMap<i64, UserState> of the pay-link bot (src/04)
    msg,      \* the bot: the update the endpoint handled last
    links,    \* the bot: how many times create_pay_link was called
    handled   \* the bot: how many updates the endpoint has handled

vars == <<src, lex_i, lex_ts, lex_ret, par_ts, par_i, body, par_ret,
          prog, run_k, env, out, run_ret, run_calls, main_ret, diag,
          sessions, msg, links, handled>>

lexVars == <<src, lex_i, lex_ts, lex_ret>>
parVars == <<par_ts, par_i, body, par_ret>>
runVars == <<prog, run_k, env, out, run_ret, run_calls>>
mainVars == <<main_ret, diag>>
botVars == <<sessions, msg, links, handled>>

(***************************************************************************)
(* Result<T, String>.  Idle: the call has not been made; Pending: the call *)
(* is executing.  A message is a tuple: its fixed text, then the values    *)
(* format! interpolates into it.                                           *)
(***************************************************************************)
Idle == [tag |-> "Idle", ok |-> <<>>, err |-> <<>>]
Pending == [tag |-> "Pending", ok |-> <<>>, err |-> <<>>]
Ok(v) == [tag |-> "Ok", ok |-> v, err |-> <<>>]
Err(m) == [tag |-> "Err", ok |-> <<>>, err |-> m]

SeqsUpTo(S, n) == UNION {[1..k -> S] : k \in 0..n}

Min(S) == CHOOSE m \in S : \A o \in S : m <= o

\* &s[from..to] with 0-based byte offsets, to exclusive
Slice(s, from, to) == SubSeq(s, from + 1, to)

(***************************************************************************)
(* Statements                                                              *)
(***************************************************************************)
LetStmt(n, v) == [kind |-> "Let", name |-> n, value |-> v]
PrintStmt(f, a) == [kind |-> "Print", format |-> f, args |-> a]

(***************************************************************************)
(* Tokens                                                                  *)
(***************************************************************************)
Tok(type) == [type |-> type, val |-> <<>>]
Ident(s) == [type |-> "Ident", val |-> s]
Str(s) == [type |-> "Str", val |-> s]
Eof == Tok("Eof")

(***************************************************************************)
(* Lexer.  The character classes are char::is_whitespace, is_alphabetic    *)
(* and is_alphanumeric restricted to the characters the inputs are made    *)
(* of.  A lexing function takes the characters and the cursor and gives    *)
(* back its result and the cursor it leaves.                               *)
(***************************************************************************)
QUOTE == "\""
BACKSLASH == "\\"
Whitespace == {" ", "\n", "\t"}
Alphabetic == {"a", "b", "e", "i", "l", "n", "p", "r", "t", "x", "L"}
Numeric == {"1"}
Alphanumeric == Alphabetic \cup Numeric

Lexed(r, i) == [ret |-> r, i |-> i]

\* Lexer::skip_ws: the cursor at the first character that is not whitespace
RECURSIVE skip_ws(_, _)
skip_ws(s, i) ==
    IF i < Len(s) /\ s[i + 1] \in Whitespace THEN skip_ws(s, i + 1) ELSE i

\* the match on esc in Lexer::string
Unescape_Verbatim(esc) == esc

Unescape(esc) ==
    CASE esc = "n" -> "\n"
      [] esc = "t" -> "\t"
      [] esc = QUOTE -> QUOTE
      [] esc = BACKSLASH -> BACKSLASH

\* Lexer::string, entered with the opening quote consumed
RECURSIVE string(_, _, _)
string(s, i, o) ==
    IF i >= Len(s) THEN Lexed(Err(<<"Unterminated string">>), i)
    ELSE LET c == s[i + 1]
         IN  IF c = QUOTE THEN Lexed(Ok(o), i + 1)
             ELSE IF c = BACKSLASH
                  THEN IF i + 1 >= Len(s)
                       THEN Lexed(Err(<<"Unfinished escape in string">>), i + 1)
                       ELSE LET esc == s[i + 2]
                            IN  IF esc \in {"n", "t", QUOTE, BACKSLASH}
                                THEN string(s, i + 2, Append(o, Unescape(esc)))
                                ELSE Lexed(Err(<<"Unsupported escape: \\", esc>>),
                                           i + 2)
                  ELSE string(s, i + 1, Append(o, c))

RECURSIVE ident_or_kw_AlphaOnly(_, _, _)
ident_or_kw_AlphaOnly(s, i, o) ==
    IF i < Len(s) /\ s[i + 1] \in Alphabetic
    THEN ident_or_kw_AlphaOnly(s, i + 1, Append(o, s[i + 1]))
    ELSE Lexed(o, i)

\* Lexer::ident_or_kw, entered with the first character consumed and in o
RECURSIVE ident_or_kw(_, _, _)
ident_or_kw(s, i, o) ==
    IF i < Len(s) /\ (s[i + 1] \in Alphanumeric \/ s[i + 1] = "_")
    THEN ident_or_kw(s, i + 1, Append(o, s[i + 1]))
    ELSE Lexed(o, i)

Punctuation ==
    [c \in {"(", ")", "{", "}", ",", ";", "="} |->
        CASE c = "(" -> "LParen"
          [] c = ")" -> "RParen"
          [] c = "{" -> "LBrace"
          [] c = "}" -> "RBrace"
          [] c = "," -> "Comma"
          [] c = ";" -> "Semicolon"
          [] c = "=" -> "Equal"]

\* the error of the last arm of the match in Lexer::next_token; i is the
\* cursor after the bump of c
unexpected_char_IndexAfter(c, i) == Err(<<"Unexpected char: ", c, i>>)

unexpected_char(c, i) == Err(<<"Unexpected char: ", c, i - 1>>)

\* the match on c in Lexer::next_token; i is the cursor after the bump of c
next_token_match(s, c, i) ==
    IF c \in DOMAIN Punctuation THEN Lexed(Ok(Tok(Punctuation[c])), i)
    ELSE IF c = QUOTE
         THEN LET r == string(s, i, <<>>)
              IN  IF r.ret.tag = "Ok" THEN Lexed(Ok(Str(r.ret.ok)), r.i) ELSE r
    ELSE IF c \in Alphabetic \/ c = "_"
         THEN LET r == ident_or_kw(s, i, <<c>>)
              IN  IF r.ret = <<"l", "e", "t">> THEN Lexed(Ok(Tok("Let")), r.i)
                  ELSE IF r.ret = <<"p", "r", "i", "n", "t">>
                       THEN Lexed(Ok(Tok("Print")), r.i)
                  ELSE Lexed(Ok(Ident(r.ret)), r.i)
    ELSE Lexed(unexpected_char(c, i), i)

\* Lexer::next_token
next_token(s, i) ==
    LET j == skip_ws(s, i)
    IN  IF j >= Len(s) THEN Lexed(Ok(Eof), j)
        ELSE next_token_match(s, s[j + 1], j + 1)

\* one iteration of the loop of tokenize on the result r of next_token
tokenize_iter_NoEofPush(r) ==
    /\ lex_i' = r.i
    /\ IF r.ret.tag = "Err"
       THEN lex_ret' = Err(r.ret.err) /\ UNCHANGED lex_ts
       ELSE IF r.ret.ok = Eof
            THEN lex_ret' = Ok(lex_ts) /\ UNCHANGED lex_ts
            ELSE lex_ts' = Append(lex_ts, r.ret.ok) /\ UNCHANGED lex_ret

tokenize_iter(r) ==
    /\ lex_i' = r.i
    /\ IF r.ret.tag = "Err"
       THEN lex_ret' = Err(r.ret.err) /\ UNCHANGED lex_ts
       ELSE /\ lex_ts' = Append(lex_ts, r.ret.ok)
            /\ lex_ret' = IF r.ret.ok = Eof THEN Ok(lex_ts') ELSE lex_ret

tokenize_step ==
    /\ lex_ret.tag = "Pending"
    /\ tokenize_iter(next_token(src, lex_i))
    /\ UNCHANGED <<src, parVars, runVars, mainVars, botVars>>

(***************************************************************************)
(* Parser.  A parsing function takes the token vector and the cursor and   *)
(* gives back its Result and the cursor it leaves.                         *)
(***************************************************************************)
Parsed(r, i) == [ret |-> r, i |-> i]

\* Parser::peek: the token under the cursor, Eof past the end
peek(ts, i) == IF i < Len(ts) THEN ts[i + 1] ELSE Eof

\* Parser::expect: bump, then compare
expect(ts, i, expected) ==
    LET t == peek(ts, i)
    IN  Parsed(IF t = expected THEN Ok(<<>>) ELSE Err(<<"Expected", expected, t>>),
               i + 1)

parse_let_NoBump(ts, i) ==
    LET e1 == expect(ts, i, Tok("Let"))
        t2 == peek(ts, i + 1)
        e3 == expect(ts, i + 2, Tok("Equal"))
        t4 == peek(ts, i + 3)
        e5 == expect(ts, i + 4, Tok("Semicolon"))
    IN  IF e1.ret.tag = "Err" THEN e1
        ELSE IF t2.type # "Ident"
             THEN Parsed(Err(<<"Expected identifier after let, got", t2>>), i + 2)
        ELSE IF e3.ret.tag = "Err" THEN e3
        ELSE IF t4.type # "Str"
             THEN Parsed(Err(<<"Expected string literal after '=', got", t4>>), i + 4)
        ELSE IF e5.ret.tag = "Err" THEN e5
        ELSE Parsed(Ok(LetStmt(t2.val, t4.val)), i)

parse_let(ts, i) ==
    LET e1 == expect(ts, i, Tok("Let"))
        t2 == peek(ts, i + 1)
        e3 == expect(ts, i + 2, Tok("Equal"))
        t4 == peek(ts, i + 3)
        e5 == expect(ts, i + 4, Tok("Semicolon"))
    IN  IF e1.ret.tag = "Err" THEN e1
        ELSE IF t2.type # "Ident"
             THEN Parsed(Err(<<"Expected identifier after let, got", t2>>), i + 2)
        ELSE IF e3.ret.tag = "Err" THEN e3
        ELSE IF t4.type # "Str"
             THEN Parsed(Err(<<"Expected string literal after '=', got", t4>>), i + 4)
        ELSE IF e5.ret.tag = "Err" THEN e5
        ELSE Parsed(Ok(LetStmt(t2.val, t4.val)), i + 5)

\* the while loop of parse_print: Ok(args) at the first token that is no Comma
RECURSIVE parse_print_args(_, _, _)
parse_print_args(ts, i, args) ==
    IF peek(ts, i) # Tok("Comma") THEN Parsed(Ok(args), i)
    ELSE LET t == peek(ts, i + 1)
         IN  IF t.type = "Ident"
             THEN parse_print_args(ts, i + 2, Append(args, t.val))
             ELSE Parsed(Err(<<"Expected identifier as print arg, got", t>>), i + 2)

parse_print_ArgsReversed(ts, i) ==
    LET e1 == expect(ts, i, Tok("Print"))
        e2 == expect(ts, i + 1, Tok("LParen"))
        t3 == peek(ts, i + 2)
        as == parse_print_args(ts, i + 3, <<>>)
        e4 == expect(ts, as.i, Tok("RParen"))
        e5 == expect(ts, as.i + 1, Tok("Semicolon"))
    IN  IF e1.ret.tag = "Err" THEN e1
        ELSE IF e2.ret.tag = "Err" THEN e2
        ELSE IF t3.type # "Str"
             THEN Parsed(Err(<<"Expected string literal in print(...), got", t3>>), i + 3)
        ELSE IF as.ret.tag = "Err" THEN as
        ELSE IF e4.ret.tag = "Err" THEN e4
        ELSE IF e5.ret.tag = "Err" THEN e5
        ELSE Parsed(Ok(PrintStmt(t3.val,
                        [k \in 1..Len(as.ret.ok) |->
                            as.ret.ok[Len(as.ret.ok) + 1 - k]])), as.i + 2)

parse_print(ts, i) ==
    LET e1 == expect(ts, i, Tok("Print"))
        e2 == expect(ts, i + 1, Tok("LParen"))
        t3 == peek(ts, i + 2)
        as == parse_print_args(ts, i + 3, <<>>)
        e4 == expect(ts, as.i, Tok("RParen"))
        e5 == expect(ts, as.i + 1, Tok("Semicolon"))
    IN  IF e1.ret.tag = "Err" THEN e1
        ELSE IF e2.ret.tag = "Err" THEN e2
        ELSE IF t3.type # "Str"
             THEN Parsed(Err(<<"Expected string literal in print(...), got", t3>>), i + 3)
        ELSE IF as.ret.tag = "Err" THEN as
        ELSE IF e4.ret.tag = "Err" THEN e4
        ELSE IF e5.ret.tag = "Err" THEN e5
        ELSE Parsed(Ok(PrintStmt(t3.val, as.ret.ok)), as.i + 2)

parse_stmt(ts, i) ==
    LET t == peek(ts, i)
    IN  IF t = Tok("Let") THEN parse_let(ts, i)
        ELSE IF t = Tok("Print") THEN parse_print(ts, i)
        ELSE Parsed(Err(<<"Unexpected token in statement:", t>>), i)

\* the condition of the while loop of parse
parse_continues(ts, i) == peek(ts, i) \notin {Tok("RBrace"), Eof}

\* one iteration of the while loop of parse
parse_step ==
    /\ par_ret.tag = "Pending"
    /\ parse_continues(par_ts, par_i)
    /\ LET r == parse_stmt(par_ts, par_i)
       IN  /\ par_i' = r.i
           /\ IF r.ret.tag = "Ok"
              THEN body' = Append(body, r.ret.ok) /\ UNCHANGED par_ret
              ELSE par_ret' = Err(r.ret.err) /\ UNCHANGED body
    /\ UNCHANGED <<par_ts, lexVars, runVars, mainVars, botVars>>

\* the loop has ended: parse returns Ok(Program { body })
parse_return ==
    /\ par_ret.tag = "Pending"
    /\ ~parse_continues(par_ts, par_i)
    /\ par_ret' = Ok(body)
    /\ UNCHANGED <<par_ts, par_i, body, lexVars, runVars, mainVars, botVars>>

(***************************************************************************)
(* Interpreter                                                             *)
(***************************************************************************)

\* HashMap::insert: the key's value is replaced, every other entry is kept
Insert_KeepFirst(m, k, v) ==
    [n \in DOMAIN m \cup {k} |-> IF n \in DOMAIN m THEN m[n] ELSE v]

Insert(m, k, v) ==
    [n \in DOMAIN m \cup {k} |-> IF n = k THEN v ELSE m[n]]

\* str::find("{}"): the byte offset of the first occurrence, -1 for None
Find_FromSecond(fmt) ==
    LET hits == {p \in 1..(Len(fmt) - 1) : fmt[p] = "{" /\ fmt[p + 1] = "}"}
    IN  IF hits = {} THEN -1 ELSE Min(hits)

Find(fmt) ==
    LET hits == {p \in 0..(Len(fmt) - 2) : fmt[p + 1] = "{" /\ fmt[p + 2] = "}"}
    IN  IF hits = {} THEN -1 ELSE Min(hits)

MissingArgs == <<"print: missing arguments for placeholders">>
TooManyArgs == <<"print: too many arguments for placeholders">>
Undefined(name) == <<"Undefined variable: ", name>>

\* The state of the loop of exec_print: the rest of the format, the number
\* of args the iterator remaining_args has yielded, the text built so far
\* and how the loop stands: "loop", "break", or "err" with the message.
PrintLoopInit(format) ==
    [fmt |-> format, taken |-> 0, out |-> <<>>, at |-> "loop", err |-> <<>>]

\* One iteration of the loop of exec_print
PrintLoopIter_UnboundEmpty(e, args, st) ==
    LET pos == Find(st.fmt)
    IN  IF pos = -1
        THEN [st EXCEPT !.out = st.out \o st.fmt, !.at = "break"]
        ELSE IF st.taken >= Len(args)
             THEN [st EXCEPT !.at = "err", !.err = MissingArgs]
             ELSE LET name == args[st.taken + 1]
                  IN  [st EXCEPT !.out = st.out \o Slice(st.fmt, 0, pos)
                                     \o (IF name \in DOMAIN e THEN e[name] ELSE <<>>),
                                 !.taken = st.taken + 1,
                                 !.fmt = Slice(st.fmt, pos + 2, Len(st.fmt))]

PrintLoopIter_Rescan(e, args, st) ==
    LET pos == Find(st.fmt)
    IN  IF pos = -1
        THEN [st EXCEPT !.out = st.out \o st.fmt, !.at = "break"]
        ELSE IF st.taken >= Len(args)
             THEN [st EXCEPT !.at = "err", !.err = MissingArgs]
             ELSE LET name == args[st.taken + 1]
                  IN  IF name \notin DOMAIN e
                      THEN [st EXCEPT !.at = "err", !.err = Undefined(name)]
                      ELSE IF Find(e[name]) = -1
                           THEN [st EXCEPT !.out = st.out \o Slice(st.fmt, 0, pos)
                                                      \o e[name],
                                           !.taken = st.taken + 1,
                                           !.fmt = Slice(st.fmt, pos + 2, Len(st.fmt))]
                           ELSE [st EXCEPT !.out = st.out \o Slice(st.fmt, 0, pos),
                                           !.taken = st.taken + 1,
                                           !.fmt = e[name]
                                               \o Slice(st.fmt, pos + 2, Len(st.fmt))]

PrintLoopIter(e, args, st) ==
    LET pos == Find(st.fmt)
    IN  IF pos = -1
        THEN [st EXCEPT !.out = st.out \o st.fmt, !.at = "break"]
        ELSE IF st.taken >= Len(args)
             THEN [st EXCEPT !.at = "err", !.err = MissingArgs]
             ELSE LET name == args[st.taken + 1]
                  IN  IF name \notin DOMAIN e
                      THEN [st EXCEPT !.at = "err", !.err = Undefined(name)]
                      ELSE [st EXCEPT !.out = st.out \o Slice(st.fmt, 0, pos)
                                                 \o e[name],
                                      !.taken = st.taken + 1,
                                      !.fmt = Slice(st.fmt, pos + 2, Len(st.fmt))]

RECURSIVE PrintLoop(_, _, _)
PrintLoop(e, args, st) ==
    IF st.at = "loop" THEN PrintLoop(e, args, PrintLoopIter(e, args, st)) ELSE st

\* exec_print: Ok(the text given to println!) or Err(message)
exec_print_NoSurplusCheck(e, format, args) ==
    LET st == PrintLoop(e, args, PrintLoopInit(format))
    IN  IF st.at = "err" THEN Err(st.err) ELSE Ok(st.out)

exec_print_LooksUpSurplus(e, format, args) ==
    LET st == PrintLoop(e, args, PrintLoopInit(format))
    IN  IF st.at = "err" THEN Err(st.err)
        ELSE IF st.taken < Len(args)
             THEN IF args[st.taken + 1] \notin DOMAIN e
                  THEN Err(Undefined(args[st.taken + 1]))
                  ELSE Err(TooManyArgs)
        ELSE Ok(st.out)

exec_print(e, format, args) ==
    LET st == PrintLoop(e, args, PrintLoopInit(format))
    IN  IF st.at = "err" THEN Err(st.err)
        ELSE IF st.taken < Len(args) THEN Err(TooManyArgs)
        ELSE Ok(st.out)

\* One iteration of the for loop of run, on statement s
RunStmt_Continue(s) ==
    /\ run_k' = run_k + 1
    /\ IF s.kind = "Let"
       THEN /\ env' = Insert(env, s.name, s.value)
            /\ UNCHANGED <<out, run_ret>>
       ELSE LET r == exec_print(env, s.format, s.args)
            IN  /\ out' = IF r.tag = "Ok" THEN Append(out, r.ok) ELSE out
                /\ UNCHANGED <<env, run_ret>>

RunStmt_PartialLine(s) ==
    IF s.kind = "Let"
    THEN /\ env' = Insert(env, s.name, s.value)
         /\ run_k' = run_k + 1
         /\ UNCHANGED <<out, run_ret>>
    ELSE LET r == exec_print(env, s.format, s.args)
         IN  IF r.tag = "Ok"
             THEN /\ out' = Append(out, r.ok)
                  /\ run_k' = run_k + 1
                  /\ UNCHANGED <<env, run_ret>>
             ELSE /\ run_ret' = Err(r.err)
                  /\ out' = Append(out, PrintLoop(env, s.args,
                                                  PrintLoopInit(s.format)).out)
                  /\ UNCHANGED <<env, run_k>>

RunStmt(s) ==
    IF s.kind = "Let"
    THEN /\ env' = Insert(env, s.name, s.value)
         /\ run_k' = run_k + 1
         /\ UNCHANGED <<out, run_ret>>
    ELSE LET r == exec_print(env, s.format, s.args)
         IN  IF r.tag = "Ok"
             THEN /\ out' = Append(out, r.ok)
                  /\ run_k' = run_k + 1
                  /\ UNCHANGED <<env, run_ret>>
             ELSE /\ run_ret' = Err(r.err)
                  /\ UNCHANGED <<env, out, run_k>>

run_step ==
    /\ run_ret.tag = "Pending"
    /\ run_k < Len(prog)
    /\ RunStmt(prog[run_k + 1])
    /\ UNCHANGED <<prog, run_calls, lexVars, parVars, mainVars, botVars>>

\* the loop is exhausted: run returns Ok(())
run_return ==
    /\ run_ret.tag = "Pending"
    /\ run_k = Len(prog)
    /\ run_ret' = Ok(<<>>)
    /\ UNCHANGED <<prog, run_k, env, out, run_calls, lexVars, parVars, mainVars, botVars>>

(***************************************************************************)
(* Inputs                                                                  *)
(***************************************************************************)
Names == {<<"a">>, <<"b">>}
Values == {<<"x">>, <<"{", "}">>}
FmtChars == {"{", "}", "h"}

MaxFmtLen == 4
MaxArgs == 2
MaxStmts == 3

Envs == UNION {[D -> Values] : D \in SUBSET Names}

\* the statements of the programs run is checked on
RunFormats == {<<"h">>, <<"{", "}">>, <<"{", "}", "h", "{", "}">>}
RunArgs == {<<>>, <<<<"a">>>>, <<<<"b">>>>, <<<<"a">>, <<"b">>>>}
RunStmts ==
    {LetStmt(n, v) : n \in Names, v \in Values}
        \cup {PrintStmt(f, a) : f \in RunFormats, a \in RunArgs}

\* chat ids (msg.chat.id.0)
Chats == {1, 2}

\* the handler of a chat none of whose updates has been handled yet
NoMsg ==
    [raw |-> <<>>, text |-> <<>>, pre |-> "Idle", pc |-> "idle",
     link |-> "none", failed |-> FALSE]

\* the bot as main of src/04 builds it: no session, nothing handled
BotIdle ==
    /\ sessions = <<>> /\ msg = [c \in Chats |-> NoMsg] /\ links = 0 /\ handled = 0

\* main of toy-lang is not running: the stage is called on its own
MainIdle ==
    /\ main_ret = Idle /\ diag = <<>>

LexIdle ==
    /\ src = <<>> /\ lex_i = 0 /\ lex_ts = <<>> /\ lex_ret = Idle
ParIdle ==
    /\ par_ts = <<>> /\ par_i = 0 /\ body = <<>> /\ par_ret = Idle

\* Interpreter::new() followed by run(prog) on a program of RunStmts
InitRun ==
    /\ LexIdle /\ ParIdle /\ MainIdle /\ BotIdle
    /\ run_calls = 1
    /\ prog \in SeqsUpTo(RunStmts, MaxStmts)
    /\ run_k = 0
    /\ env = <<>>
    /\ out = <<>>
    /\ run_ret = Pending

\* one call exec_print(format, args), through run, in any Environment
InitPrint ==
    /\ LexIdle /\ ParIdle /\ MainIdle /\ BotIdle
    /\ run_calls = 1
    /\ \E f \in SeqsUpTo(FmtChars, MaxFmtLen), a \in SeqsUpTo(Names, MaxArgs) :
          prog = <<PrintStmt(f, a)>>
    /\ run_k = 0
    /\ env \in Envs
    /\ out = <<>>
    /\ run_ret = Pending

\* main, after parse has returned Ok: Interpreter::new() and vm.run(program)
main_run ==
    /\ par_ret.tag = "Ok"
    /\ run_ret.tag = "Idle"
    /\ prog' = par_ret.ok
    /\ run_k' = 0
    /\ env' = <<>>
    /\ out' = <<>>
    /\ run_ret' = Pending
    /\ run_calls' = run_calls + 1
    /\ diag' = Append(diag, <<"Program: ", par_ret.ok>>)
    /\ UNCHANGED <<main_ret, lexVars, parVars, botVars>>

\* Token vectors as tokenize returns them: tokens other than Eof, then Eof.
\* They are put together from single tokens and from pieces of statements.
STR_X == <<"x">>
STR_FMT == <<"{", "}">>
Chunks ==
    {<<Tok(k)>> : k \in {"Let", "Print", "LParen", "RParen", "LBrace",
                          "RBrace", "Comma", "Semicolon", "Equal"}}
        \cup {<<Ident(<<"a">>)>>, <<Str(STR_X)>>}
        \cup {<<Tok("Let"), Ident(<<"a">>), Tok("Equal"), Str(STR_X),
                Tok("Semicolon")>>,
              <<Tok("Print"), Tok("LParen"), Str(STR_FMT)>>,
              <<Tok("Comma"), Ident(<<"a">>)>>,
              <<Tok("Comma"), Ident(<<"b">>)>>,
              <<Tok("RParen"), Tok("Semicolon")>>}

MaxChunks == 4

RECURSIVE Flatten(_)
Flatten(ss) == IF ss = <<>> THEN <<>> ELSE Head(ss) \o Flatten(Tail(ss))

RunIdle ==
    /\ prog = <<>> /\ run_k = 0 /\ env = <<>> /\ out = <<>> /\ run_ret = Idle
    /\ run_calls = 0

\* Parser::new(tokens) followed by parse()
InitParse ==
    /\ LexIdle /\ RunIdle /\ MainIdle /\ BotIdle
    /\ \E n \in 0..MaxChunks : \E cs \in [1..n -> Chunks] :
          par_ts = Flatten(cs) \o <<Eof>>
    /\ par_i = 0
    /\ body = <<>>
    /\ par_ret = Pending

NextParse == parse_step \/ parse_return \/ main_run \/ run_step \/ run_return

SpecParse == InitParse /\ [][NextParse]_vars

\* Source texts: up to MaxFrags pieces, each one character or a keyword,
\* and the text  let x = "a\nb";
Frags ==
    {<<c>> : c \in {" ", QUOTE, BACKSLASH, "n", "t", "1", "#",
                     "(", ")", "{", "}", ",", ";", "="}}
        \cup {<<"l", "e", "t">>, <<"p", "r", "i", "n", "t">>}

MaxFrags == 4

ExampleSrc ==
    <<"l", "e", "t", " ", "x", " ", "=", " ",
      QUOTE, "a", BACKSLASH, "n", "b", QUOTE, ";">>

\* Lexer::new(s) followed by tokenize()
InitLex ==
    /\ ParIdle /\ RunIdle /\ MainIdle /\ BotIdle
    /\ \/ \E n \in 0..MaxFrags : \E fs \in [1..n -> Frags] : src = Flatten(fs)
       \/ src = ExampleSrc
    /\ lex_i = 0
    /\ lex_ts = <<>>
    /\ lex_ret = Pending

NextLex == tokenize_step

SpecLex == InitLex /\ [][NextLex]_vars

(***************************************************************************)
(* main of toy-lang: tokenize, dump the tokens, parse, dump the program,   *)
(* run; the first Err is returned with the label of its stage.             *)
(***************************************************************************)

\* .map_err(|e| format!("Lex error: {e}"))?
main_lex_err ==
    /\ main_ret.tag = "Pending"
    /\ lex_ret.tag = "Err"
    /\ main_ret' = Err(<<"Lex error: ", lex_ret.err>>)
    /\ UNCHANGED <<diag, lexVars, parVars, runVars, botVars>>

\* println!("Tokens: ..."), Parser::new(tokens) and the call of parse
main_parse ==
    /\ main_ret.tag = "Pending"
    /\ lex_ret.tag = "Ok"
    /\ par_ret.tag = "Idle"
    /\ diag' = Append(diag, <<"Tokens: ", lex_ret.ok>>)
    /\ par_ts' = lex_ret.ok
    /\ par_i' = 0
    /\ body' = <<>>
    /\ par_ret' = Pending
    /\ UNCHANGED <<main_ret, lexVars, runVars, botVars>>

\* .map_err(|e| format!("Parse error: {e}"))?
main_parse_err ==
    /\ main_ret.tag = "Pending"
    /\ par_ret.tag = "Err"
    /\ main_ret' = Err(<<"Parse error: ", par_ret.err>>)
    /\ UNCHANGED <<diag, lexVars, parVars, runVars, botVars>>

\* .map_err(|e| format!("Runtime error: {e}"))?
main_run_err ==
    /\ main_ret.tag = "Pending"
    /\ run_ret.tag = "Err"
    /\ main_ret' = Err(<<"Runtime error: ", run_ret.err>>)
    /\ UNCHANGED <<diag, lexVars, parVars, runVars, botVars>>

\* Ok(()) at the end of main
main_ok ==
    /\ main_ret.tag = "Pending"
    /\ run_ret.tag = "Ok"
    /\ main_ret' = Ok(<<>>)
    /\ UNCHANGED <<diag, lexVars, parVars, runVars, botVars>>

\* Source files: up to MaxMainFrags pieces, each a statement or a character
MainFrags ==
    {<<"l", "e", "t", " ", "a", "=", QUOTE, "x", QUOTE, ";">>,
     <<"p", "r", "i", "n", "t", "(", QUOTE, "{", "}", QUOTE, ",", "a", ")", ";">>,
     <<"p", "r", "i", "n", "t", "(", QUOTE, "h", QUOTE, ")", ";">>,
     <<"p", "r", "i", "n", "t", "(", QUOTE, "{", "}", QUOTE, ",", "b", ")", ";">>,
     <<"#">>,
     <<";">>,
     <<"}">>,
     <<" ">>,
     <<QUOTE>>}

MaxMainFrags == 3

\* main, with the file read and Lexer::new(&code).tokenize() called
InitMain ==
    /\ ParIdle /\ RunIdle /\ BotIdle
    /\ \E n \in 0..MaxMainFrags : \E fs \in [1..n -> MainFrags] : src = Flatten(fs)
    /\ lex_i = 0
    /\ lex_ts = <<>>
    /\ lex_ret = Pending
    /\ main_ret = Pending
    /\ diag = <<>>

NextMain ==
    \/ tokenize_step \/ main_lex_err \/ main_parse
    \/ parse_step \/ parse_return \/ main_parse_err \/ main_run
    \/ run_step \/ run_return \/ main_run_err \/ main_ok

SpecMain == InitMain /\ [][NextMain]_vars

\* sources made of words that are, start with or differ in case from a
\* keyword, placed where a Let takes its name and a Print its arguments
IdentFrags ==
    {<<"l", "e", "t">>,
     <<"p", "r", "i", "n", "t">>,
     <<"L", "e", "t">>,
     <<"_">>,
     <<"1">>,
     <<"x">>,
     <<" ">>,
     <<"#">>,
     <<"=", QUOTE, "x", QUOTE, ";">>,
     <<"p", "r", "i", "n", "t", "(", QUOTE, "{", "}", QUOTE, ",">>,
     <<")", ";">>}

MaxIdentFrags == 4

\* main up to the return of parse: Lexer::new(&code).tokenize(), then
\* Parser::new(tokens).parse()
InitIdent ==
    /\ ParIdle /\ RunIdle /\ BotIdle
    /\ \E n \in 0..MaxIdentFrags : \E fs \in [1..n -> IdentFrags] : src = Flatten(fs)
    /\ lex_i = 0
    /\ lex_ts = <<>>
    /\ lex_ret = Pending
    /\ main_ret = Pending
    /\ diag = <<>>

NextIdent ==
    \/ tokenize_step \/ main_lex_err \/ main_parse
    \/ parse_step \/ parse_return \/ main_parse_err

SpecIdent == InitIdent /\ [][NextIdent]_vars

\* Source files for the whole pipeline: the pieces of MainFrags and a
\* backslash, so that escapes and strings left open are lexed too
StageFrags == MainFrags \cup {<<BACKSLASH>>}

MaxStageFrags == 3

\* Token vectors handed to Parser::new directly; none of them holds Eof
StageChunks ==
    {<<Tok("Let"), Ident(<<"a">>), Tok("Equal"), Str(STR_X), Tok("Semicolon")>>,
     <<Tok("Print"), Tok("LParen"), Str(<<"{", "}", "h", "{", "}">>)>>,
     <<Tok("Print"), Tok("LParen"), Str(<<"h">>)>>,
     <<Tok("Comma"), Ident(<<"a">>)>>,
     <<Tok("Comma"), Ident(<<"b">>)>>,
     <<Tok("RParen"), Tok("Semicolon")>>,
     <<Tok("Let"), Ident(<<"a">>), Tok("Equal"), Str(STR_X)>>,
     <<Tok("Let")>>,
     <<Tok("RBrace")>>}

MaxStageChunks == 4

\* either main on a source file, or Parser::new(tokens).parse() and
\* Interpreter::new().run(program) on a token vector without Eof
InitStages ==
    \/ /\ ParIdle /\ RunIdle /\ BotIdle
       /\ \E n \in 0..MaxStageFrags : \E fs \in [1..n -> StageFrags] :
             src = Flatten(fs)
       /\ lex_i = 0
       /\ lex_ts = <<>>
       /\ lex_ret = Pending
       /\ main_ret = Pending
       /\ diag = <<>>
    \/ /\ LexIdle /\ RunIdle /\ MainIdle /\ BotIdle
       /\ \E n \in 0..MaxStageChunks : \E cs \in [1..n -> StageChunks] :
             par_ts = Flatten(cs)
       /\ par_i = 0
       /\ body = <<>>
       /\ par_ret = Pending

NextStages == NextMain

\* the program is one thread: a step that can be taken is taken
SpecStages == InitStages /\ [][NextStages]_vars /\ WF_vars(NextStages)

\* Programs for successive calls of run on one Interpreter value
RerunStmts ==
    {LetStmt(<<"a">>, STR_X),
     LetStmt(<<"b">>, <<"h">>),
     PrintStmt(<<"{", "}">>, <<<<"a">>>>),
     PrintStmt(<<"{", "}">>, <<<<"b">>>>)}

MaxRerunStmts == 2
MaxRuns == 2

\* Interpreter::new() followed by run(prog)
InitRerun ==
    /\ LexIdle /\ ParIdle /\ MainIdle /\ BotIdle
    /\ run_calls = 1
    /\ \E n \in 0..MaxRerunStmts : prog \in [1..n -> RerunStmts]
    /\ run_k = 0
    /\ env = <<>>
    /\ out = <<>>
    /\ run_ret = Pending

\* another call of run(&mut self, p) on the same Interpreter, after the
\* call before it has returned: the loop starts over p; self.env is the
\* field as the earlier call left it, stdout keeps what was printed
run_again ==
    /\ run_ret.tag \in {"Ok", "Err"}
    /\ run_calls < MaxRuns
    /\ \E n \in 0..MaxRerunStmts : prog' \in [1..n -> RerunStmts]
    /\ run_k' = 0
    /\ run_ret' = Pending
    /\ run_calls' = run_calls + 1
    /\ UNCHANGED <<env, out, lexVars, parVars, mainVars, botVars>>

NextRerun == run_step \/ run_return \/ run_again

SpecRerun == InitRerun /\ [][NextRerun]_vars

(***************************************************************************)
(* The Telegram pay-link bot (src/04): the message endpoint.  sessions is  *)
(* the DashMap from chat id to UserState, msg[c] the handler of chat c:    *)
(* the update it was called with, the state it matched on, the await it    *)
(* is suspended at (pc), the result of create_pay_link and whether a       *)
(* send_message returned Err.  The dispatcher hands the updates of one     *)
(* chat to the endpoint one after the other, those of different chats      *)
(* concurrently, so handlers of different chats interleave at the awaits.  *)
(***************************************************************************)
CMD_START == <<"/", "s", "t", "a", "r", "t">>
CMD_AYUDA == <<"a", "y", "u", "d", "a">>
CMD_PAY == <<"/", "p", "a", "y">>
ABC == <<"a", "b", "c">>

\* str::trim
RECURSIVE TrimStart(_)
TrimStart(s) ==
    IF s # <<>> /\ Head(s) \in Whitespace THEN TrimStart(Tail(s)) ELSE s

RECURSIVE TrimEnd(_)
TrimEnd(s) ==
    IF s # <<>> /\ s[Len(s)] \in Whitespace
    THEN TrimEnd(SubSeq(s, 1, Len(s) - 1))
    ELSE s

Trim(s) == TrimEnd(TrimStart(s))

\* str::to_lowercase on the letters the inputs are made of
ToLower_Identity(s) == s

ToLower(s) ==
    [k \in 1..Len(s) |->
        CASE s[k] = "A" -> "a"
          [] s[k] = "B" -> "b"
          [] s[k] = "C" -> "c"
          [] s[k] = "P" -> "p"
          [] s[k] = "Y" -> "y"
          [] OTHER -> s[k]]

\* sessions.get(&chat_id).map(|r| r.clone()).unwrap_or(UserState::Idle)
get_or_idle(c) == IF c \in DOMAIN sessions THEN sessions[c] ELSE "Idle"

\* DashMap::insert
sessions_insert(c, st) ==
    [k \in DOMAIN sessions \cup {c} |-> IF k = c THEN st ELSE sessions[k]]

\* msg.text(): the texts of the updates; <<>> is also an update without text
BotTexts ==
    {CMD_START, CMD_AYUDA, CMD_PAY,
     <<" ", "/", "p", "a", "y", "\n">>,
     <<"/", "P", "A", "Y">>,
     ABC,
     <<"A", "B", "C">>,
     <<" ", "a", "B", "c", " ">>,
     <<"a", "b">>,
     <<"r", "e", "f">>,
     <<>>}

MaxMsgs == 4

\* the endpoint is called with an update of chat c and runs to its first
\* await: the match on text, the insert of the /pay arm, the match on the
\* chat's state
bot_receive(c, raw) ==
    LET text == Trim(raw)
        st == get_or_idle(c)
    IN  /\ msg[c].pc = "idle"
        /\ handled < MaxMsgs
        /\ handled' = handled + 1
        /\ sessions' = IF text = CMD_PAY
                       THEN sessions_insert(c, "WaitingReference")
                       ELSE sessions
        /\ msg' = [msg EXCEPT ![c] =
                      [raw |-> raw, text |-> text, pre |-> st,
                       pc |-> IF text \in {CMD_START, CMD_AYUDA, CMD_PAY}
                                 \/ st = "Idle"
                              THEN "send_last" ELSE "send_search",
                       link |-> "none", failed |-> FALSE]]
        /\ UNCHANGED <<links, lexVars, parVars, runVars, mainVars>>

\* the only send_message of the /start, ayuda, /pay and Idle arms returns
bot_send_last(c, ok) ==
    /\ msg[c].pc = "send_last"
    /\ msg' = [msg EXCEPT ![c].pc = "idle", ![c].failed = ~ok]
    /\ UNCHANGED <<sessions, links, handled, lexVars, parVars, runVars, mainVars>>

\* the send of "Buscando ..." / "Verificando ..." returns; on Ok the
\* handler goes on to the test reference.to_lowercase() == "abc"
bot_send_search(c, ok) ==
    /\ msg[c].pc = "send_search"
    /\ msg' = [msg EXCEPT
                 ![c].pc = IF ~ok THEN "idle"
                           ELSE IF ToLower(msg[c].text) = ABC THEN "send_notfound"
                           ELSE "link",
                 ![c].failed = ~ok]
    /\ UNCHANGED <<sessions, links, handled, lexVars, parVars, runVars, mainVars>>

\* the send of the "no encontrada" / "sigue siendo invalida" message
\* returns; the WaitingReference arm then inserts ReferenceNotFound
bot_send_notfound(c, ok) ==
    /\ msg[c].pc = "send_notfound"
    /\ msg' = [msg EXCEPT ![c].pc = "idle", ![c].failed = ~ok]
    /\ sessions' = IF ok /\ msg[c].pre = "WaitingReference"
                   THEN sessions_insert(c, "ReferenceNotFound")
                   ELSE sessions
    /\ UNCHANGED <<links, handled, lexVars, parVars, runVars, mainVars>>

\* create_pay_link(amount, &reference, chat_id).await returns r
bot_link(c, r) ==
    /\ msg[c].pc = "link"
    /\ links' = links + 1
    /\ msg' = [msg EXCEPT ![c].pc = "send_link", ![c].link = r]
    /\ UNCHANGED <<sessions, handled, lexVars, parVars, runVars, mainVars>>

\* the send of the link or of the error message returns; on Ok the
\* handler inserts Idle
bot_send_link(c, ok) ==
    /\ msg[c].pc = "send_link"
    /\ msg' = [msg EXCEPT ![c].pc = "idle", ![c].failed = ~ok]
    /\ sessions' = IF ok THEN sessions_insert(c, "Idle") ELSE sessions
    /\ UNCHANGED <<links, handled, lexVars, parVars, runVars, mainVars>>

\* main: the DashMap is new, no update has arrived
InitBot == LexIdle /\ ParIdle /\ RunIdle /\ MainIdle /\ BotIdle

NextBot ==
    \/ \E c \in Chats : \E raw \in BotTexts : bot_receive(c, raw)
    \/ \E c \in Chats : \E ok \in BOOLEAN : bot_send_last(c, ok)
    \/ \E c \in Chats : \E ok \in BOOLEAN : bot_send_search(c, ok)
    \/ \E c \in Chats : \E ok \in BOOLEAN : bot_send_notfound(c, ok)
    \/ \E c \in Chats : \E r \in {"Ok", "Err"} : bot_link(c, r)
    \/ \E c \in Chats : \E ok \in BOOLEAN : bot_send_link(c, ok)

SpecBot == InitBot /\ [][NextBot]_vars

NextRun == run_step \/ run_return

SpecRun == InitRun /\ [][NextRun]_vars
SpecPrint == InitPrint /\ [][NextRun]_vars


(***************************************************************************)
(* What the claims are stated against: the placeholder markers of a format *)
(* by position, and the Environment and output of a program prefix read    *)
(* off the program text.                                                   *)
(***************************************************************************)
Max(S) == CHOOSE m \in S : \A o \in S : m >= o

\* the positions (1-based) of the leftmost non-overlapping "{}" at or after p
RECURSIVE Markers(_, _)
Markers(f, p) ==
    IF p + 1 > Len(f) THEN <<>>
    ELSE IF f[p] = "{" /\ f[p + 1] = "}" THEN <<p>> \o Markers(f, p + 2)
    ELSE Markers(f, p + 1)

NumMarkers(f) == Len(Markers(f, 1))

\* what position j of the format contributes to the line
Piece(f, args, e, j) ==
    LET M == Markers(f, 1)
    IN  IF \E k \in 1..Len(M) : M[k] = j
        THEN e[args[CHOOSE k \in 1..Len(M) : M[k] = j]]
        ELSE IF \E k \in 1..Len(M) : M[k] = j - 1
             THEN <<>>
             ELSE <<f[j]>>

RECURSIVE ExpectedUpTo(_, _, _, _)
ExpectedUpTo(f, args, e, j) ==
    IF j = 0 THEN <<>>
    ELSE ExpectedUpTo(f, args, e, j - 1) \o Piece(f, args, e, j)

\* the format with its i-th marker replaced by the value of args[i]
Expected(f, args, e) == ExpectedUpTo(f, args, e, Len(f))

AllBound(args, e) == \A i \in 1..Len(args) : args[i] \in DOMAIN e

\* the indices of the args that have a marker, and are not bound in e
UnboundPaired(f, args, e) ==
    {i \in 1..Len(args) : i <= NumMarkers(f) /\ args[i] \notin DOMAIN e}

\* the Let statements for name n among the first k statements of p
LetsOf(p, n, k) == {j \in 1..k : p[j].kind = "Let" /\ p[j].name = n}

\* the Environment after the first k statements of p: last write wins
RefEnv(p, k) ==
    [n \in {p[j].name : j \in {i \in 1..k : p[i].kind = "Let"}}
        |-> p[Max(LetsOf(p, n, k))].value]

\* statement j of p is a Print that does not succeed after statements 1..j-1
RefFails(p, j) ==
    /\ p[j].kind = "Print"
    /\ \/ NumMarkers(p[j].format) # Len(p[j].args)
       \/ ~AllBound(p[j].args, RefEnv(p, j - 1))

FirstFail(p) ==
    IF \E j \in 1..Len(p) : RefFails(p, j)
    THEN Min({j \in 1..Len(p) : RefFails(p, j)})
    ELSE Len(p) + 1

\* the lines of the Print statements among the first k statements of p
RECURSIVE RefOut(_, _)
RefOut(p, k) ==
    IF k = 0 THEN <<>>
    ELSE IF p[k].kind = "Print"
         THEN Append(RefOut(p, k - 1),
                     Expected(p[k].format, p[k].args, RefEnv(p, k - 1)))
         ELSE RefOut(p, k - 1)

\* the error of the first step that fails in the scan of a failing Print
RefError(s, e) ==
    LET U == UnboundPaired(s.format, s.args, e)
    IN  IF U # {} THEN Undefined(s.args[Min(U)])
        ELSE IF NumMarkers(s.format) > Len(s.args) THEN MissingArgs
        ELSE TooManyArgs

NumPrints(p) == Cardinality({j \in 1..Len(p) : p[j].kind = "Print"})

\* the single exec_print call of SpecPrint has been made
PrintCalled == run_k > 0 \/ run_ret.tag # "Pending"

(***************************************************************************)
(* C1: a Print whose format has as many markers as it has args, all bound, *)
(* succeeds and emits exactly one line: the format with the i-th marker    *)
(* replaced by the value of args[i], every other character kept in place.  *)
(***************************************************************************)
C1_PrintSubstitutes ==
    LET s == prog[1]
    IN  (/\ PrintCalled
         /\ NumMarkers(s.format) = Len(s.args)
         /\ AllBound(s.args, env))
            => /\ run_ret.tag # "Err"
               /\ run_k = 1
               /\ out = <<Expected(s.format, s.args, env)>>

C1_Witness ==
    /\ run_ret.tag = "Ok"
    /\ NumMarkers(prog[1].format) = 2
    /\ Len(prog[1].args) = 2
    /\ prog[1].args[1] # prog[1].args[2]
    /\ AllBound(prog[1].args, env)
    /\ env[prog[1].args[1]] # env[prog[1].args[2]]
    /\ Len(out) = 1

(***************************************************************************)
(* C2: at every point of run the Environment maps each name to the value   *)
(* of the most recently executed Let for it and holds no other name; the   *)
(* statement run fails on is never a Let.                                  *)
(***************************************************************************)
C2_LastWriteWins ==
    /\ env = RefEnv(prog, run_k)
    /\ out = RefOut(prog, run_k)
    /\ run_ret.tag = "Err" => prog[run_k + 1].kind = "Print"

C2_Witness ==
    /\ run_ret.tag = "Ok"
    /\ \E i, j \in 1..Len(prog) :
          /\ i < j
          /\ prog[i].kind = "Let" /\ prog[j].kind = "Let"
          /\ prog[i].name = prog[j].name
          /\ prog[i].value # prog[j].value
          /\ env[prog[j].name] = prog[j].value
          /\ DOMAIN env = {prog[j].name}
          /\ j < Len(prog)
          /\ out = <<prog[j].value>>

(***************************************************************************)
(* C3: with every argument bound, a Print with more markers than args      *)
(* fails with "missing arguments for placeholders", one with fewer markers *)
(* than args with "too many arguments for placeholders"; neither emits a   *)
(* line.                                                                   *)
(***************************************************************************)
C3_ArityErrors ==
    LET s == prog[1]
    IN  (PrintCalled /\ AllBound(s.args, env))
            => /\ NumMarkers(s.format) > Len(s.args)
                    => run_ret = Err(MissingArgs) /\ out = <<>>
               /\ NumMarkers(s.format) < Len(s.args)
                    => run_ret = Err(TooManyArgs) /\ out = <<>>

C3_Witness ==
    /\ run_ret = Err(TooManyArgs)
    /\ NumMarkers(prog[1].format) = 1
    /\ Len(prog[1].args) = 2
    /\ AllBound(prog[1].args, env)
    /\ out = <<>>

(***************************************************************************)
(* C5: run executes the statements in Program order and stops at the first *)
(* failing one: the Environment and the output are always those of the     *)
(* statements before the cursor, the cursor never passes the first failing *)
(* statement, an Err is returned at that statement and nothing runs after  *)
(* it; Ok(()) is returned only at the end, with one line per Print.        *)
(***************************************************************************)
C5_StopsAtFirstError ==
    /\ run_k <= Len(prog)
    /\ run_k < FirstFail(prog)
    /\ env = RefEnv(prog, run_k)
    /\ out = RefOut(prog, run_k)
    /\ run_ret.tag = "Err"
          => /\ run_k + 1 = FirstFail(prog)
             /\ run_ret.err = RefError(prog[run_k + 1], RefEnv(prog, run_k))
             /\ ~ENABLED NextRun
    /\ run_ret.tag = "Ok"
          => /\ run_k = Len(prog)
             /\ FirstFail(prog) = Len(prog) + 1
             /\ Len(out) = NumPrints(prog)
             /\ ~ENABLED NextRun
    /\ (run_ret.tag = "Pending" /\ run_k = Len(prog))
          => FirstFail(prog) = Len(prog) + 1

C5_Witness ==
    /\ run_ret.tag = "Err"
    /\ Len(out) = 1
    /\ run_k + 1 < Len(prog)
    /\ prog[Len(prog)].kind = "Print"
    /\ ~RefFails(prog, Len(prog))


(***************************************************************************)
(* The grammar  program := statement* ,  read off a token vector by        *)
(* position: where a statement starts at p, how many tokens it has.        *)
(***************************************************************************)
TokAt(ts, p) == IF p \in 1..Len(ts) THEN ts[p] ELSE Tok("none")

IsLetAt(ts, p) ==
    /\ TokAt(ts, p) = Tok("Let")
    /\ TokAt(ts, p + 1).type = "Ident"
    /\ TokAt(ts, p + 2) = Tok("Equal")
    /\ TokAt(ts, p + 3).type = "Str"
    /\ TokAt(ts, p + 4) = Tok("Semicolon")

\* n pairs Comma Ident follow position p
PairsAt(ts, p, n) ==
    \A k \in 0..(n - 1) :
        TokAt(ts, p + 2 * k) = Tok("Comma") /\ TokAt(ts, p + 2 * k + 1).type = "Ident"

\* a print statement with n arguments starts at p
IsPrintAt(ts, p, n) ==
    /\ TokAt(ts, p) = Tok("Print")
    /\ TokAt(ts, p + 1) = Tok("LParen")
    /\ TokAt(ts, p + 2).type = "Str"
    /\ PairsAt(ts, p + 3, n)
    /\ TokAt(ts, p + 3 + 2 * n) = Tok("RParen")
    /\ TokAt(ts, p + 4 + 2 * n) = Tok("Semicolon")

\* the statement that starts at p, with its number of tokens; len 0: none
RefStmtAt(ts, p) ==
    IF IsLetAt(ts, p)
    THEN [len |-> 5, stmt |-> LetStmt(ts[p + 1].val, ts[p + 3].val)]
    ELSE IF \E n \in 0..Len(ts) : IsPrintAt(ts, p, n)
         THEN LET n == CHOOSE n \in 0..Len(ts) : IsPrintAt(ts, p, n)
              IN  [len |-> 5 + 2 * n,
                   stmt |-> PrintStmt(ts[p + 2].val,
                                      [k \in 1..n |-> ts[p + 2 + 2 * k].val])]
         ELSE [len |-> 0, stmt |-> <<>>]

\* ts from position p on is  statement* Eof : ok, with the statements
RECURSIVE RefParse(_, _)
RefParse(ts, p) ==
    IF p = Len(ts) /\ ts[p] = Eof THEN [ok |-> TRUE, body |-> <<>>]
    ELSE LET s == RefStmtAt(ts, p)
         IN  IF s.len = 0 THEN [ok |-> FALSE, body |-> <<>>]
             ELSE LET rest == RefParse(ts, p + s.len)
                  IN  [ok |-> rest.ok,
                       body |-> IF rest.ok THEN <<s.stmt>> \o rest.body ELSE <<>>]

ParseReturned == par_ret.tag \in {"Ok", "Err"}

(***************************************************************************)
(* C9: on a token vector of the form statement* Eof, parse returns Ok with *)
(* one Stmt per statement, in source order: Let{name, value} from the      *)
(* Ident and Str of a let, Print{format, args} from the Str and the        *)
(* identifiers, in order of appearance, of a print.                        *)
(***************************************************************************)
C9_ParsesGrammar ==
    (ParseReturned /\ RefParse(par_ts, 1).ok)
        => /\ par_ret.tag = "Ok"
           /\ par_ret.ok = RefParse(par_ts, 1).body

C9_Witness ==
    /\ par_ret.tag = "Ok"
    /\ par_ret.ok = <<PrintStmt(STR_FMT, <<<<"b">>, <<"a">>>>)>>
    /\ par_i = Len(par_ts) - 1

(***************************************************************************)
(* C10: parse returns Ok only on a token vector that is statement* Eof as  *)
(* a whole, with every token before the Eof consumed; on any other vector  *)
(* it returns an Err.                                                      *)
(***************************************************************************)
C10_ParseOkOnlyOnGrammar ==
    /\ par_ret.tag = "Ok"
          => RefParse(par_ts, 1).ok /\ par_i = Len(par_ts) - 1
    /\ (ParseReturned /\ ~RefParse(par_ts, 1).ok) => par_ret.tag = "Err"

(***************************************************************************)
(* C4: the names of a Print are looked up in the Environment of the moment *)
(* it executes.  A Print never succeeds with a marker-paired argument that *)
(* no earlier Let bound; run fails on it with "Undefined variable: <name>" *)
(* for the first such argument, also when a later Let binds the name; and  *)
(* the program with the forward reference came out of parse as Ok.         *)
(***************************************************************************)
C4_UndefinedAtRunTime ==
    /\ \A j \in 1..run_k :
          prog[j].kind = "Print"
             => UnboundPaired(prog[j].format, prog[j].args, RefEnv(prog, j - 1)) = {}
    /\ (run_ret.tag = "Err")
          => LET s == prog[run_k + 1]
                 U == UnboundPaired(s.format, s.args, RefEnv(prog, run_k))
             IN  U # {} => run_ret = Err(Undefined(s.args[Min(U)]))
    /\ run_ret.tag # "Idle" => par_ret = Ok(prog)
    /\ (ParseReturned /\ RefParse(par_ts, 1).ok) => par_ret.tag = "Ok"

C4_Witness ==
    /\ par_ret.tag = "Ok"
    /\ run_ret = Err(Undefined(<<"a">>))
    /\ run_k = 0
    /\ prog = <<PrintStmt(STR_FMT, <<<<"a">>>>), LetStmt(<<"a">>, STR_X)>>


(***************************************************************************)
(* The text of a string literal, read off the source by position.          *)
(* Positions are 1-based; q is the position of the opening quote.          *)
(***************************************************************************)

\* the cursor (0-based) of the first character at or after i that is not
\* whitespace; Len(s) when there is none
TokenStart(s, i) ==
    Min({k \in i..Len(s) : k = Len(s) \/ s[k + 1] \notin Whitespace})

\* the number of backslashes that end right before position p, after q
BackslashRun(s, q, p) ==
    Max({n \in 0..(p - q - 1) : \A k \in 1..n : s[p - k] = BACKSLASH})

\* the character at p is the second character of an escape sequence
Escaped(s, q, p) == BackslashRun(s, q, p) % 2 = 1

\* the positions of the unescaped quotes after q
Closings(s, q) ==
    {p \in (q + 1)..Len(s) : s[p] = QUOTE /\ ~Escaped(s, q, p)}

\* where the literal ends: at its closing quote, else at the end of input
LiteralEnd(s, q) ==
    IF Closings(s, q) = {} THEN Len(s) + 1 ELSE Min(Closings(s, q))

BadEscapes(s, q) ==
    {p \in (q + 1)..(LiteralEnd(s, q) - 1) :
        Escaped(s, q, p) /\ s[p] \notin {"n", "t", QUOTE, BACKSLASH}}

RefStringFails(s, q) == Closings(s, q) = {} \/ BadEscapes(s, q) # {}

RefChar(s, q, p) ==
    IF Escaped(s, q, p)
    THEN CASE s[p] = "n" -> <<"\n">>
           [] s[p] = "t" -> <<"\t">>
           [] s[p] = QUOTE -> <<QUOTE>>
           [] s[p] = BACKSLASH -> <<BACKSLASH>>
    ELSE IF s[p] = BACKSLASH THEN <<>> ELSE <<s[p]>>

RECURSIVE RefStringUpTo(_, _, _)
RefStringUpTo(s, q, p) ==
    IF p <= q THEN <<>> ELSE RefStringUpTo(s, q, p - 1) \o RefChar(s, q, p)

RefString(s, q) == RefStringUpTo(s, q, LiteralEnd(s, q) - 1)

AllWhitespace(s) == \A k \in 1..Len(s) : s[k] \in Whitespace

(***************************************************************************)
(* C6: a token sequence returned by tokenize is not empty, ends in Eof and *)
(* has no other Eof; for the empty and the all-whitespace source it is     *)
(* [Eof].                                                                  *)
(***************************************************************************)
C6_ExactlyOneEof ==
    lex_ret.tag = "Ok"
        => LET r == lex_ret.ok
           IN  /\ Len(r) >= 1
               /\ r[Len(r)] = Eof
               /\ \A k \in 1..(Len(r) - 1) : r[k] # Eof
               /\ AllWhitespace(src) => r = <<Eof>>

C6_Witness ==
    /\ lex_ret.tag = "Ok"
    /\ Len(lex_ret.ok) = 3
    /\ lex_ret.ok[2].type = "Str"
    /\ src[1] = " "

(***************************************************************************)
(* C7: the step of tokenize that meets an opening quote appends Str(s), s  *)
(* being the text up to the first unescaped closing quote with the escapes *)
(* \n \t \" \\ replaced and every other character copied, and leaves the   *)
(* cursor after the closing quote; when there is a backslash followed by   *)
(* another character, or no closing quote, it returns an Err and no        *)
(* tokens.  let x = "a\nb";  gives Let Ident(x) Equal Str(a<newline>b)     *)
(* Semicolon Eof.                                                          *)
(***************************************************************************)
StringStep ==
    LET j == TokenStart(src, lex_i)
    IN  (lex_ret.tag = "Pending" /\ j < Len(src) /\ src[j + 1] = QUOTE)
            => IF RefStringFails(src, j + 1)
               THEN lex_ret'.tag = "Err" /\ lex_ret'.ok = <<>>
               ELSE /\ lex_ts' = Append(lex_ts, Str(RefString(src, j + 1)))
                    /\ lex_i' = LiteralEnd(src, j + 1)
                    /\ lex_ret'.tag = "Pending"

ExampleTokens ==
    <<Tok("Let"), Ident(<<"x">>), Tok("Equal"), Str(<<"a", "\n", "b">>),
      Tok("Semicolon"), Eof>>

C7_StringLiterals ==
    /\ [][StringStep]_vars
    /\ [](lex_ret.tag = "Ok" => lex_ret.ok = lex_ts)
    /\ [](src = ExampleSrc
            => /\ lex_ret.tag # "Err"
               /\ lex_ret.tag = "Ok" => lex_ret.ok = ExampleTokens)

C7_Witness ==
    /\ lex_ret.tag = "Ok"
    /\ src = <<QUOTE, BACKSLASH, QUOTE, QUOTE>>
    /\ lex_ret.ok = <<Str(<<QUOTE>>), Eof>>

(***************************************************************************)
(* C8: the step of tokenize that meets, at the start of a token, a         *)
(* character that is not whitespace, punctuation, a quote, alphabetic or   *)
(* an underscore returns an Err naming that character and its 0-based      *)
(* index in the source, and no tokens.                                     *)
(***************************************************************************)
TokenStartChars == Whitespace \cup DOMAIN Punctuation \cup {QUOTE, "_"} \cup Alphabetic

UnexpectedStep ==
    LET j == TokenStart(src, lex_i)
    IN  (lex_ret.tag = "Pending" /\ j < Len(src) /\ src[j + 1] \notin TokenStartChars)
            => lex_ret' = Err(<<"Unexpected char: ", src[j + 1], j>>)

C8_UnexpectedChar ==
    /\ [][UnexpectedStep]_vars
    /\ [](lex_ret.tag = "Err" /\ lex_ret.err[1] = "Unexpected char: "
            => /\ lex_ret.err[3] \in 0..(Len(src) - 1)
               /\ src[lex_ret.err[3] + 1] = lex_ret.err[2]
               /\ lex_ret.err[2] \notin TokenStartChars
               /\ lex_ret.ok = <<>>)

C8_Witness ==
    /\ lex_ret = Err(<<"Unexpected char: ", "1", 3>>)
    /\ src[1] = " "
    /\ src[2] = QUOTE


(***************************************************************************)
(* C11: the stages run one after the other over the whole input: parse is  *)
(* called only with the tokens of a tokenize that returned Ok, run only    *)
(* with the program of a parse that returned Ok after consuming every      *)
(* token before Eof.  A source with a lex error, or whose tokens are not   *)
(* statement* Eof, emits no line of a Print statement, and the Err of main *)
(* carries the label of the earliest failing stage.                        *)
(***************************************************************************)
SyntaxError == lex_ret.tag = "Ok" /\ ~RefParse(lex_ret.ok, 1).ok

C11_StagesInSequence ==
    /\ par_ret.tag # "Idle"
          => lex_ret.tag = "Ok" /\ par_ts = lex_ret.ok /\ lex_i = Len(src)
    /\ run_ret.tag # "Idle"
          => /\ par_ret.tag = "Ok" /\ prog = par_ret.ok
             /\ par_i = Len(par_ts) - 1
    /\ (lex_ret.tag = "Err" \/ SyntaxError) => out = <<>> /\ run_ret.tag = "Idle"
    /\ main_ret.tag = "Err"
          => main_ret.err[1] =
                IF lex_ret.tag = "Err" THEN "Lex error: "
                ELSE IF SyntaxError THEN "Parse error: "
                ELSE "Runtime error: "
    /\ main_ret.tag = "Ok" => lex_ret.tag = "Ok" /\ ~SyntaxError

(***************************************************************************)
(* C12: a failing Print reports the error of the first failing step of the *)
(* scan: Undefined variable for the first unbound argument that has a      *)
(* marker, whatever the number of args; else missing arguments when there  *)
(* are more markers than args; else too many arguments, the surplus args   *)
(* never being looked up.                                                  *)
(***************************************************************************)
RefPrintFails(s, e) ==
    NumMarkers(s.format) # Len(s.args) \/ UnboundPaired(s.format, s.args, e) # {}

C12_FirstFailingStep ==
    LET s == prog[1]
    IN  PrintCalled
            => IF RefPrintFails(s, env)
               THEN run_ret = Err(RefError(s, env))
               ELSE run_ret.tag # "Err"

C12_Witness ==
    /\ run_ret = Err(TooManyArgs)
    /\ NumMarkers(prog[1].format) = 1
    /\ prog[1].args = <<<<"a">>, <<"b">>>>
    /\ DOMAIN env = {<<"a">>}

(***************************************************************************)
(* C13: a step of run on a Let changes the Environment at that one name    *)
(* and nothing else, and emits nothing; a step on a Print leaves the       *)
(* Environment as it is, emits one line when it succeeds and nothing when  *)
(* it fails.                                                               *)
(***************************************************************************)
FrameStep ==
    (run_ret.tag = "Pending" /\ run_k < Len(prog))
        => LET s == prog[run_k + 1]
           IN  IF s.kind = "Let"
               THEN /\ out' = out
                    /\ run_ret' = run_ret
                    /\ DOMAIN env' = DOMAIN env \cup {s.name}
                    /\ env'[s.name] = s.value
                    /\ \A n \in DOMAIN env \ {s.name} : env'[n] = env[n]
               ELSE /\ env' = env
                    /\ run_ret'.tag = "Err" => out' = out
                    /\ run_ret'.tag # "Err"
                          => /\ Len(out') = Len(out) + 1
                             /\ SubSeq(out', 1, Len(out)) = out

C13_DisjointEffects == [][FrameStep]_vars

C13_Witness ==
    /\ run_ret = Err(MissingArgs)
    /\ run_k = 1
    /\ prog[2].kind = "Print"
    /\ prog[2].format = <<"{", "}", "h", "{", "}">>
    /\ DOMAIN env = {<<"a">>}
    /\ out = <<>>

(***************************************************************************)
(* C14: markers are looked for in the format only.  When the value of a    *)
(* marker-paired argument itself contains "{}", the Print still succeeds   *)
(* exactly when the format has as many markers as there are args, all      *)
(* bound, fails with the error the format and the args call for, and       *)
(* emits the value as it is.  With a bound to "{}", print("{}", a) emits   *)
(* "{}".                                                                   *)
(***************************************************************************)
MarkerInValue(s, e) ==
    \E i \in 1..Len(s.args) :
        /\ i <= NumMarkers(s.format)
        /\ s.args[i] \in DOMAIN e
        /\ NumMarkers(e[s.args[i]]) > 0

C14_ValuesNotRescanned ==
    LET s == prog[1]
    IN  (PrintCalled /\ MarkerInValue(s, env))
            => /\ run_ret.tag # "Err"
                    <=> (NumMarkers(s.format) = Len(s.args) /\ AllBound(s.args, env))
               /\ run_ret.tag = "Err" => run_ret.err \in {MissingArgs, TooManyArgs}
                                            \cup {Undefined(n) : n \in Names}
               /\ run_ret.tag # "Err"
                    => /\ Len(out) = 1
                       /\ NumMarkers(out[1]) >= 1
                       /\ Len(out[1]) = Len(s.format) - 2 * Len(s.args)
                             + Len(Flatten([i \in 1..Len(s.args) |-> env[s.args[i]]]))
               /\ (s = PrintStmt(<<"{", "}">>, <<<<"a">>>>) /\ <<"a">> \in DOMAIN env)
                    => out = <<env[<<"a">>]>>

C14_Witness ==
    /\ run_ret.tag = "Ok"
    /\ prog[1] = PrintStmt(<<"{", "}">>, <<<<"a">>>>)
    /\ env[<<"a">>] = <<"{", "}">>
    /\ out = <<<<"{", "}">>>>

(***************************************************************************)
(* C15: a token that starts at an alphabetic character or underscore is    *)
(* the longest run of alphanumeric-or-underscore characters from there; it *)
(* is Let or Print only when the whole run is exactly let or print, and    *)
(* Ident of the whole run otherwise.  No Ident token, no name of a parsed  *)
(* Let and no argument of a parsed Print is let or print.                  *)
(***************************************************************************)
WordChars == Alphanumeric \cup {"_"}

\* the 0-based position after the longest run of word characters from j
WordEnd(s, j) ==
    Min({k \in (j + 1)..Len(s) : k = Len(s) \/ s[k + 1] \notin WordChars})

Keywords == {<<"l", "e", "t">>, <<"p", "r", "i", "n", "t">>}

WordStep ==
    LET j == TokenStart(src, lex_i)
    IN  (lex_ret.tag = "Pending" /\ j < Len(src)
            /\ (src[j + 1] \in Alphabetic \/ src[j + 1] = "_"))
            => LET e == WordEnd(src, j)
                   w == [k \in 1..(e - j) |-> src[j + k]]
               IN  /\ lex_i' = e
                   /\ lex_ret' = lex_ret
                   /\ lex_ts' = Append(lex_ts,
                          CASE w = <<"l", "e", "t">> -> Tok("Let")
                            [] w = <<"p", "r", "i", "n", "t">> -> Tok("Print")
                            [] OTHER -> [type |-> "Ident", val |-> w])

NoKeywordNames(stmts) ==
    \A k \in 1..Len(stmts) :
        IF stmts[k].kind = "Let"
        THEN stmts[k].name \notin Keywords
        ELSE \A a \in 1..Len(stmts[k].args) : stmts[k].args[a] \notin Keywords

C15_MaximalWords ==
    /\ [][WordStep]_vars
    /\ [](/\ \A k \in 1..Len(lex_ts) :
                lex_ts[k].type = "Ident" => lex_ts[k].val \notin Keywords
          /\ NoKeywordNames(body)
          /\ par_ret.tag = "Ok" => NoKeywordNames(par_ret.ok))

C15_Witness ==
    /\ par_ret.tag = "Ok"
    /\ par_ret.ok = <<PrintStmt(<<"{", "}">>, <<<<"p", "r", "i", "n", "t", "1">>>>)>>
    /\ lex_ts[5] = Ident(<<"p", "r", "i", "n", "t", "1">>)

(***************************************************************************)
(* C16: every stage terminates and its cursor only moves forward.  A       *)
(* next_token call returns Eof at the end of the input or advances the     *)
(* lexer cursor, never past the end of the source; an iteration of the     *)
(* loop of parse returns an error or advances the token cursor, and parse  *)
(* returns when the cursor is at or past the end of a token vector, with   *)
(* or without Eof; an iteration of the loop of exec_print ends the loop    *)
(* (no marker left, or an error) or shortens the remaining format.  Every  *)
(* call made returns, and main ends in Ok or in the Err of the first       *)
(* failing stage.                                                          *)
(***************************************************************************)
LexProgress ==
    lex_ret.tag = "Pending"
        => /\ lex_i' <= Len(src)
           /\ \/ lex_i' > lex_i
              \/ /\ lex_i' = lex_i
                 /\ lex_i = Len(src)
                 /\ lex_ts' = Append(lex_ts, Eof)
                 /\ lex_ret' = Ok(lex_ts')

ParseProgress ==
    par_ret.tag = "Pending"
        => \/ par_ret'.tag = "Err" /\ par_i' >= par_i
           \/ par_ret'.tag = "Pending" /\ par_i' > par_i
           \/ /\ par_ret' = Ok(body)
              /\ par_i' = par_i
              /\ \/ par_i >= Len(par_ts)
                 \/ par_ts[par_i + 1] \in {Tok("RBrace"), Eof}

\* the states of the loop of exec_print, one per iteration boundary
RECURSIVE PrintLoopTrace(_, _, _)
PrintLoopTrace(e, args, st) ==
    IF st.at # "loop" THEN <<st>>
    ELSE <<st>> \o PrintLoopTrace(e, args, PrintLoopIter(e, args, st))

PrintAtCursor ==
    /\ run_ret.tag = "Pending"
    /\ run_k < Len(prog)
    /\ prog[run_k + 1].kind = "Print"

IterationsAtCursor ==
    PrintLoopTrace(env, prog[run_k + 1].args, PrintLoopInit(prog[run_k + 1].format))

EachIterationShortens(tr) ==
    \A k \in 1..(Len(tr) - 1) : Len(tr[k + 1].fmt) < Len(tr[k].fmt)

EachIterationShortensOrEnds(tr) ==
    /\ \A k \in 1..(Len(tr) - 1) :
          \/ tr[k + 1].at # "loop" /\ k + 1 = Len(tr)
          \/ Len(tr[k + 1].fmt) <= Len(tr[k].fmt) - 2
    /\ Len(tr) - 1 <= Len(tr[1].fmt) \div 2 + 1

AllReturned ==
    /\ lex_ret.tag # "Pending"
    /\ par_ret.tag # "Pending"
    /\ run_ret.tag # "Pending"
    /\ main_ret.tag # "Pending"

SuccessOrFirstFailure ==
    /\ main_ret.tag = "Ok"
          => lex_ret.tag = "Ok" /\ par_ret.tag = "Ok" /\ run_ret.tag = "Ok"
    /\ main_ret.tag = "Err"
          => \/ lex_ret.tag = "Err" /\ par_ret.tag = "Idle" /\ run_ret.tag = "Idle"
             \/ lex_ret.tag = "Ok" /\ par_ret.tag = "Err" /\ run_ret.tag = "Idle"
             \/ lex_ret.tag = "Ok" /\ par_ret.tag = "Ok" /\ run_ret.tag = "Err"

C16_StagesTerminate ==
    /\ [][LexProgress]_vars
    /\ [][ParseProgress]_vars
    /\ [](PrintAtCursor => EachIterationShortensOrEnds(IterationsAtCursor))
    /\ [](SuccessOrFirstFailure)
    /\ <>[]AllReturned

\* the claim as stated: each iteration of the loop of exec_print, the last
\* one included, strictly shortens the remaining format
C16_EveryIterationShortens ==
    /\ [][LexProgress]_vars
    /\ [][ParseProgress]_vars
    /\ [](PrintAtCursor => EachIterationShortens(IterationsAtCursor))
    /\ [](SuccessOrFirstFailure)
    /\ <>[]AllReturned

C16_Witness ==
    /\ main_ret = Ok(<<>>)
    /\ lex_i = Len(src)
    /\ par_i = Len(par_ts) - 1
    /\ Len(prog) = 2
    /\ out = <<<<"x">>>>

\* parse has stopped at the end of a token vector that holds no Eof, and
\* run has executed the Let and the Print it returned
C16_WitnessNoEof ==
    /\ main_ret.tag = "Idle"
    /\ par_ret.tag = "Ok"
    /\ par_i = Len(par_ts)
    /\ \A k \in 1..Len(par_ts) : par_ts[k] # Eof
    /\ run_ret.tag = "Ok"
    /\ DOMAIN env = {<<"a">>}
    /\ out = <<<<"h">>>>

(***************************************************************************)
(* C17: every call of run works on a fresh Environment: while a call       *)
(* executes, the Environment holds the bindings of the Lets this call has  *)
(* executed and no others, and a Print of this call fails exactly when it  *)
(* would fail against those bindings alone.                                *)
(***************************************************************************)
PrintSeesOwnCallOnly ==
    PrintAtCursor
        => (run_ret'.tag = "Err"
                <=> RefPrintFails(prog[run_k + 1], RefEnv(prog, run_k)))

C17_FreshEnvironmentPerRun ==
    /\ [](run_ret.tag = "Pending" => env = RefEnv(prog, run_k))
    /\ [][PrintSeesOwnCallOnly]_vars

\* the second call prints x for a name only the first call has bound
C17_StaleBindingVisible ==
    /\ run_calls = 2
    /\ prog = <<PrintStmt(<<"{", "}">>, <<<<"a">>>>)>>
    /\ run_ret.tag = "Ok"
    /\ out = <<<<"x">>>>

(***************************************************************************)
(* C18: the session of each chat of the pay-link bot, an absent entry      *)
(* being Idle.  When the handler of a message has returned with no send    *)
(* failed, the chat is in WaitingReference after /pay; in the state it was *)
(* in after /start and ayuda; after any other trimmed text it is Idle if   *)
(* it was Idle, and otherwise ReferenceNotFound if the text lowercased is  *)
(* abc and Idle if not, whatever create_pay_link returned.  A chat enters  *)
(* ReferenceNotFound only from WaitingReference on such an abc text, a pay *)
(* link is attempted only for a chat that was in WaitingReference or       *)
(* ReferenceNotFound, and a step of one chat's handler leaves every other  *)
(* chat's state as it is.                                                  *)
(***************************************************************************)
Stripped(s) ==
    LET keep == {k \in 1..Len(s) : s[k] \notin Whitespace}
    IN  IF keep = {} THEN <<>>
        ELSE [k \in 1..(Max(keep) - Min(keep) + 1) |-> s[Min(keep) + k - 1]]

IsAbc(s) ==
    /\ Len(s) = 3
    /\ s[1] \in {"a", "A"}
    /\ s[2] \in {"b", "B"}
    /\ s[3] \in {"c", "C"}

StateAfter(pre, raw) ==
    LET t == Stripped(raw)
    IN  IF t = <<"/", "p", "a", "y">> THEN "WaitingReference"
        ELSE IF t \in {<<"/", "s", "t", "a", "r", "t">>, <<"a", "y", "u", "d", "a">>}
             THEN pre
        ELSE IF pre = "Idle" THEN "Idle"
        ELSE IF IsAbc(t) THEN "ReferenceNotFound"
        ELSE "Idle"

StateOf(c) == IF c \in DOMAIN sessions THEN sessions[c] ELSE "Idle"

IsReference(raw) ==
    Stripped(raw) \notin {<<"/", "p", "a", "y">>, <<"/", "s", "t", "a", "r", "t">>,
                          <<"a", "y", "u", "d", "a">>}

C18_SessionStateMachine ==
    /\ [](\A c \in Chats :
            (msg[c].pc = "idle" /\ ~msg[c].failed)
                => StateOf(c) = StateAfter(msg[c].pre, msg[c].raw))
    /\ [][\A c \in Chats :
            /\ msg'[c] = msg[c] => StateOf(c)' = StateOf(c)
            /\ (StateOf(c)' = "ReferenceNotFound" /\ StateOf(c) # "ReferenceNotFound")
                  => /\ StateOf(c) = "WaitingReference"
                     /\ msg[c].pre = "WaitingReference"
                     /\ IsAbc(Stripped(msg[c].raw))
            /\ (StateOf(c)' = "WaitingReference" /\ StateOf(c) # "WaitingReference")
                  => Stripped(msg'[c].raw) = <<"/", "p", "a", "y">>]_vars
    /\ [][links' # links
            => /\ links' = links + 1
               /\ \E c \in Chats :
                     /\ msg'[c] # msg[c]
                     /\ msg[c].pre \in {"WaitingReference", "ReferenceNotFound"}
                     /\ StateOf(c) = msg[c].pre
                     /\ IsReference(msg[c].raw)
                     /\ ~IsAbc(Stripped(msg[c].raw))]_vars

\* chat 1 sent /pay and then " aBc " and is in ReferenceNotFound, while
\* chat 2, whose pay link failed, is back in Idle
C18_Witness ==
    /\ msg[1].raw = <<" ", "a", "B", "c", " ">>
    /\ msg[1].pc = "idle"
    /\ ~msg[1].failed
    /\ StateOf(1) = "ReferenceNotFound"
    /\ msg[2].pre = "WaitingReference"
    /\ msg[2].link = "Err"
    /\ msg[2].pc = "idle"
    /\ ~msg[2].failed
    /\ 2 \in DOMAIN sessions
    /\ sessions[2] = "Idle"

=============================================================================
